---- MODULE Spec2Model ----
(***************************************************************************)
(* The sequential task-decomposition workflow of agent_example.py:         *)
(* Agent.solve = analyze_task, then execute_step per step with an          *)
(* accumulating context, then compile_results; main reads the outcome.     *)
(*                                                                         *)
(* Text (a Python str) is a sequence of characters; a character is a TLA+  *)
(* string (coarse characters such as "description" keep the texts short).  *)
(* A Python value is a tagged record [t |-> tag, v |-> payload].           *)
(***************************************************************************)
EXTENDS Integers, Sequences, FiniteSets, TLC

\* Longest plan the planner returns in the model.
MaxSteps == 3

----------------------------------------------------------------------------
\* Python values

None == [t |-> "none"]
PyStr(s) == [t |-> "str", v |-> s]
PyInt(n) == [t |-> "int", v |-> n]
PyBool(b) == [t |-> "bool", v |-> b]
PyList(xs) == [t |-> "list", v |-> xs]
PyDict(f) == [t |-> "dict", v |-> f]

EmptyDict == [k \in {} |-> None]

\* d[key] = val on a dict payload: a repeated key keeps the last value.
DictSet(f, key, val) ==
    [k \in (DOMAIN f) \cup {key} |-> IF k = key THEN val ELSE f[k]]

\* bool(x), as `not steps` evaluates it.
Truthy(x) ==
    CASE x.t = "none" -> FALSE
      [] x.t = "bool" -> x.v
      [] x.t = "int" -> x.v # 0
      [] x.t = "str" -> Len(x.v) > 0
      [] x.t = "list" -> Len(x.v) > 0
      [] x.t = "dict" -> DOMAIN x.v # {}

Digits == <<"0", "1", "2", "3", "4", "5", "6", "7", "8", "9">>

\* str(n) for a natural number, one character per decimal digit.
RECURSIVE IntStr(_)
IntStr(n) == IF n < 10 THEN <<Digits[n + 1]>>
             ELSE IntStr(n \div 10) \o <<Digits[(n % 10) + 1]>>

\* format(x) inside an f-string, for the values the model formats
\* (None, str, int, bool).
Format(x) ==
    CASE x.t = "none" -> <<"None">>
      [] x.t = "str" -> x.v
      [] x.t = "int" -> IntStr(x.v)
      [] x.t = "bool" -> IF x.v THEN <<"True">> ELSE <<"False">>

----------------------------------------------------------------------------
\* json.loads on a text: a decoder for arrays, objects, strings (no
\* escapes), one-digit numbers and the literals null, true, false.

Whitespace == {" ", "\n"}
Quote == "\""

DecodeError == [ok |-> FALSE]
Decoded(val, pos) == [ok |-> TRUE, val |-> val, pos |-> pos]

RECURSIVE SkipWs(_, _)
SkipWs(s, i) == IF i <= Len(s) /\ s[i] \in Whitespace THEN SkipWs(s, i + 1) ELSE i

\* Index of the quote closing a string whose content starts at j; 0 if none.
RECURSIVE ScanString(_, _)
ScanString(s, j) == IF j > Len(s) THEN 0
                    ELSE IF s[j] = Quote THEN j
                    ELSE ScanString(s, j + 1)

DigitValue(c) == CHOOSE n \in 0..9 : Digits[n + 1] = c

RECURSIVE ParseValue(_, _)
RECURSIVE ParseElems(_, _, _)
RECURSIVE ParseMembers(_, _, _)

ParseValue(s, i) ==
    LET j == SkipWs(s, i) IN
    IF j > Len(s) THEN DecodeError
    ELSE CASE s[j] = Quote ->
                LET e == ScanString(s, j + 1) IN
                IF e = 0 THEN DecodeError
                ELSE Decoded(PyStr(SubSeq(s, j + 1, e - 1)), e + 1)
           [] s[j] = "[" ->
                LET k == SkipWs(s, j + 1) IN
                IF k <= Len(s) /\ s[k] = "]" THEN Decoded(PyList(<<>>), k + 1)
                ELSE ParseElems(s, k, <<>>)
           [] s[j] = "{" ->
                LET k == SkipWs(s, j + 1) IN
                IF k <= Len(s) /\ s[k] = "}" THEN Decoded(PyDict(EmptyDict), k + 1)
                ELSE ParseMembers(s, k, EmptyDict)
           [] s[j] = "null" -> Decoded(None, j + 1)
           [] s[j] = "true" -> Decoded(PyBool(TRUE), j + 1)
           [] s[j] = "false" -> Decoded(PyBool(FALSE), j + 1)
           [] \E n \in 1..10 : Digits[n] = s[j] -> Decoded(PyInt(DigitValue(s[j])), j + 1)
           [] OTHER -> DecodeError

ParseElems(s, i, acc) ==
    LET r == ParseValue(s, i) IN
    IF ~r.ok THEN DecodeError
    ELSE LET k == SkipWs(s, r.pos) IN
         IF k > Len(s) THEN DecodeError
         ELSE IF s[k] = "," THEN ParseElems(s, k + 1, Append(acc, r.val))
         ELSE IF s[k] = "]" THEN Decoded(PyList(Append(acc, r.val)), k + 1)
         ELSE DecodeError

ParseMembers(s, i, acc) ==
    LET j == SkipWs(s, i) IN
    IF j > Len(s) \/ s[j] # Quote THEN DecodeError
    ELSE LET e == ScanString(s, j + 1) IN
         IF e = 0 THEN DecodeError
         ELSE LET key == SubSeq(s, j + 1, e - 1)
                  c == SkipWs(s, e + 1)
              IN IF c > Len(s) \/ s[c] # ":" THEN DecodeError
                 ELSE LET r == ParseValue(s, c + 1) IN
                      IF ~r.ok THEN DecodeError
                      ELSE LET k == SkipWs(s, r.pos)
                               f == DictSet(acc, key, r.val)
                           IN IF k > Len(s) THEN DecodeError
                              ELSE IF s[k] = "," THEN ParseMembers(s, k + 1, f)
                              ELSE IF s[k] = "}" THEN Decoded(PyDict(f), k + 1)
                              ELSE DecodeError

\* json.loads(text): the value, or JSONDecodeError (also on trailing data).
JsonLoads(s) ==
    LET r == ParseValue(s, 1) IN
    IF r.ok /\ SkipWs(s, r.pos) > Len(s) THEN [ok |-> TRUE, val |-> r.val]
    ELSE DecodeError

----------------------------------------------------------------------------
\* The completion capability and the texts it answers with

Q == Quote

\* The capability's behaviour at one call: it returns a text, returns a
\* message without content, or raises.
Returns(text) == [kind |-> "text", content |-> text]
NoContent == [kind |-> "nocontent"]
Raises == [kind |-> "raises"]

\* The queries solve is called with: main's, and a short one.
Queries == { <<"Research and suggest three possible vacation destinations">>,
             <<"Plan a birthday party">> }

\* Steps a planner that follows the planning prompt writes.
StepChoices == { [description |-> <<"Pick a venue">>, reasoning |-> <<"Needed first">>],
                 [description |-> <<"Send invites">>, reasoning |-> <<"After venue is set">>] }

WellFormedPlans == UNION { [1..n -> StepChoices] : n \in 0..MaxSteps }

\* The JSON text of one {description, reasoning} record.
StepText(st) ==
    <<"{", Q, "description", Q, ":", " ", Q>> \o st.description \o <<Q, ",", " ">>
    \o <<Q, "reasoning", Q, ":", " ", Q>> \o st.reasoning \o <<Q, "}">>

RECURSIVE StepTexts(_, _)
StepTexts(p, k) ==
    IF k > Len(p) THEN <<>>
    ELSE IF k = Len(p) THEN StepText(p[k])
    ELSE StepText(p[k]) \o <<",", "\n">> \o StepTexts(p, k + 1)

\* The JSON array the planning prompt asks for, for the plan p.
PlanText(p) == <<"[">> \o StepTexts(p, 1) \o <<"]">>

\* Texts that are not JSON.
NonJsonTexts ==
    { <<"not", " ", "json">>,
      <<>>,
      <<"Here", " ", "is", " ", "the", " ", "plan", ":", " ", "[", "]">>,
      <<"[", "{", Q, "description", Q, ":", Q, "Pick a venue", Q, "}", "]", " ", "done">>,
      <<"[", "{", Q, "description", Q, ":", Q, "Pick a venue", Q, ",", "]">>,
      <<"[", "{", Q, "description", Q, ":", Q, "Pick a venue", "}", "]">> }

\* Texts that are JSON of another shape than a list of {description,
\* reasoning} records.
OtherShapeTexts ==
    { <<"{", "}">>,
      <<"{", Q, "steps", Q, ":", "[", "]", "}">>,
      <<"null">>, <<"false">>, <<"true">>, <<"0">>, <<"5">>,
      <<Q, Q>>, <<Q, "Pick a venue", Q>>,
      <<"[", "1", "]">>,
      <<"[", Q, "Pick a venue", Q, "]">>,
      <<"[", "null", "]">>,
      <<"[", "[", "]", "]">>,
      <<"[", "{", "}", "]">>,
      <<"[", "{", Q, "description", Q, ":", Q, "Pick a venue", Q, "}", "]">>,
      <<"[", "{", Q, "reasoning", Q, ":", Q, "Needed first", Q, "}", "]">>,
      <<"[", "{", Q, "description", Q, ":", Q, "Pick a venue", Q, ",",
                  Q, "reasoning", Q, ":", Q, "Needed first", Q, "}", ",",
             "{", Q, "description", Q, ":", Q, "Send invites", Q, "}", "]">>,
      <<"[", "{", Q, "description", Q, ":", Q, "Pick a venue", Q, ",",
                  Q, "reasoning", Q, ":", Q, "Needed first", Q, "}", ",",
             "5", "]">> }

PlanTexts == { PlanText(p) : p \in WellFormedPlans } \cup NonJsonTexts \cup OtherShapeTexts

\* Texts a step or the compilation is answered with; the second reads like
\* the formatted null.
ResultTexts == { <<"A park pavilion">>, <<"None">> }

PlanBehaviours == { Returns(t) : t \in PlanTexts } \cup {NoContent, Raises}
ResultBehaviours == { Returns(t) : t \in ResultTexts } \cup {NoContent, Raises}

----------------------------------------------------------------------------
\* Agent

\* A variant of _call_llm that hands back the error text of a failed call
\* in place of None.
call_llm_error_text(o) ==
    IF o.kind = "text" THEN PyStr(o.content) ELSE PyStr(<<"Error calling LLM">>)

\* _call_llm: the content of the reply; None when the reply has no content
\* or the call raises (the exception is caught and printed).
call_llm(o) == IF o.kind = "text" THEN PyStr(o.content) ELSE None

NoException == "none"
Returned(val) == [raised |-> NoException, val |-> val]
Raised(e) == [raised |-> e]

\* x[key] for a str key: KeyError on a dict without the key, TypeError on
\* a value that is no dict.
Subscript(x, key) ==
    IF x.t = "dict"
    THEN IF key \in DOMAIN x.v THEN Returned(x.v[key]) ELSE Raised("KeyError")
    ELSE Raised("TypeError")

\* The user message of analyze_task.
PlanMessage(user_query) == <<"Break down this task into steps: ">> \o user_query

\* A variant of analyze_task without the except clause: the decode error
\* propagates.
analyze_task_no_except(response) ==
    IF response.t # "str" THEN [raised |-> "TypeError"]
    ELSE LET r == JsonLoads(response.v) IN
         IF r.ok THEN [raised |-> "none", val |-> r.val]
         ELSE [raised |-> "JSONDecodeError"]

\* A variant of analyze_task that returns the reply without decoding it.
analyze_task_undecoded(response) ==
    IF response.t # "str" THEN [raised |-> "TypeError"]
    ELSE LET r == JsonLoads(response.v) IN
         IF r.ok THEN [raised |-> "none", val |-> response]
         ELSE [raised |-> "none", val |-> PyList(<<>>)]

\* analyze_task after its call returned `response`: the decoded value, []
\* on JSONDecodeError; json.loads raises TypeError on a response that is
\* no str, which no handler catches.
analyze_task(response) ==
    IF response.t # "str" THEN Raised("TypeError")
    ELSE LET r == JsonLoads(response.v) IN
         IF r.ok THEN Returned(r.val) ELSE Returned(PyList(<<>>))

\* The user message execute_step builds, or the exception of step[...].
StepMessage(step, context) ==
    LET d == Subscript(step, <<"description">>) IN
    IF d.raised # NoException THEN d
    ELSE LET r == Subscript(step, <<"reasoning">>) IN
         IF r.raised # NoException THEN r
         ELSE Returned(<<"Context so far: ">> \o context
                       \o <<"\n", "\n", "Execute this step: ">> \o Format(d.val)
                       \o <<"\n", "\n", "Reasoning: ">> \o Format(r.val))

\* "\n\n".join of the numbered results, from the k-th on.
RECURSIVE JoinResults(_, _)
JoinResults(steps_results, k) ==
    IF k > Len(steps_results) THEN <<>>
    ELSE LET text == <<"Step ">> \o IntStr(k) \o <<" result: ">> \o Format(steps_results[k]) IN
         IF k = Len(steps_results) THEN text
         ELSE text \o <<"\n", "\n">> \o JoinResults(steps_results, k + 1)

\* The user message compile_results builds.
CompileMessage(steps_results, user_query) ==
    <<"Original query: ">> \o user_query \o <<"\n", "\n", "Results from steps:", "\n">>
    \o JoinResults(steps_results, 1)
    \o <<"\n", "\n", "Please provide a comprehensive, unified response to the original query.">>

\* A variant of the context record numbered from 0.
ContextRecordFromZero(i, result) ==
    <<"\n", "Step ">> \o IntStr(i) \o <<" result: ">> \o Format(result)

\* A variant of the context record that leaves out a null result.
ContextRecordSkipsNull(i, result) ==
    IF result.t = "none" THEN <<>>
    ELSE <<"\n", "Step ">> \o IntStr(i + 1) \o <<" result: ">> \o Format(result)

\* The record solve appends to context after step i (0-based).
ContextRecord(i, result) ==
    <<"\n", "Step ">> \o IntStr(i + 1) \o <<" result: ">> \o Format(result)

\* len(steps) and the loop printing step['description'] of every step: the
\* first exception it raises, or none.
RECURSIVE PrintDescriptions(_, _)
PrintDescriptions(xs, k) ==
    IF k > Len(xs) THEN NoException
    ELSE LET d == Subscript(xs[k], <<"description">>) IN
         IF d.raised # NoException THEN d.raised ELSE PrintDescriptions(xs, k + 1)

PrintPlan(steps) ==
    CASE steps.t = "list" -> PrintDescriptions(steps.v, 1)
      [] OTHER -> "TypeError"

----------------------------------------------------------------------------
\* Agent.solve and main as a state machine. A state lies between two
\* completion calls: each action is the code that runs from the return of
\* one call to the start of the next (or to the end of solve).

VARIABLES
    pc,             \* where solve is: "Start", "Planning", "Executing",
                    \* "Compiling" (a call is in flight), "Failed", "Done"
                    \* (it returned), "Raised" (it propagated an exception)
    user_query,     \* solve's argument
    steps,          \* the value analyze_task returned
    i,              \* index of the step being executed
    step_results,   \* solve's list of results
    context,        \* solve's context text
    outcome,        \* the dict solve returned, as a function of its keys
    exc,            \* the exception solve propagated
    calls,          \* the completion calls started so far, in order
    replies,        \* the capability's behaviour at each call that ended
    printed         \* main's read of result["final_response"]

vars == <<pc, user_query, steps, i, step_results, context, outcome, exc,
          calls, replies, printed>>

Call(fn, message) == [fn |-> fn, user |-> message]

NoOutcome == [k \in {} |-> None]

ErrorOutcome == [error |-> PyStr(<<"Could not break down the task into steps">>)]

DoneOutcome(q, st, results, final) ==
    [query |-> PyStr(q), steps |-> st, step_results |-> PyList(results),
     final_response |-> final]

Init ==
    /\ pc = "Start"
    /\ user_query \in Queries
    /\ steps = None
    /\ i = 0
    /\ step_results = <<>>
    /\ context = <<>>
    /\ outcome = NoOutcome
    /\ exc = NoException
    /\ calls = <<>>
    /\ replies = <<>>
    /\ printed = "no"

\* solve up to the start of analyze_task's call.
SolveStart ==
    /\ pc = "Start"
    /\ pc' = "Planning"
    /\ calls' = Append(calls, Call("analyze_task", PlanMessage(user_query)))
    /\ UNCHANGED <<user_query, steps, i, step_results, context, outcome, exc,
                   replies, printed>>

\* solve propagates the exception e.
Propagate(e) ==
    /\ pc' = "Raised"
    /\ exc' = e
    /\ UNCHANGED <<calls, outcome>>

\* A variant of the loop that stops one step early.
ContinueStopsEarly(st, k, results, ctx) ==
    IF k + 1 < Len(st.v)
    THEN LET m == StepMessage(st.v[k + 1], ctx) IN
         IF m.raised # NoException THEN Propagate(m.raised)
         ELSE /\ pc' = "Executing"
              /\ calls' = Append(calls, Call("execute_step", m.val))
              /\ UNCHANGED <<outcome, exc>>
    ELSE /\ pc' = "Compiling"
         /\ calls' = Append(calls, Call("compile_results", CompileMessage(results, user_query)))
         /\ UNCHANGED <<outcome, exc>>

\* The next iteration of the loop over steps, up to the start of
\* execute_step's call; past the last step, up to the start of
\* compile_results' call.
Continue(st, k, results, ctx) ==
    IF k < Len(st.v)
    THEN LET m == StepMessage(st.v[k + 1], ctx) IN
         IF m.raised # NoException THEN Propagate(m.raised)
         ELSE /\ pc' = "Executing"
              /\ calls' = Append(calls, Call("execute_step", m.val))
              /\ UNCHANGED <<outcome, exc>>
    ELSE /\ pc' = "Compiling"
         /\ calls' = Append(calls, Call("compile_results", CompileMessage(results, user_query)))
         /\ UNCHANGED <<outcome, exc>>

\* analyze_task's call ends; solve checks the plan, prints it and enters
\* the loop.
PlanReturn(o) ==
    /\ pc = "Planning"
    /\ replies' = Append(replies, o)
    /\ LET a == analyze_task(call_llm(o)) IN
       IF a.raised # NoException
       THEN /\ Propagate(a.raised)
            /\ UNCHANGED <<steps, i, step_results, context>>
       ELSE /\ steps' = a.val
            /\ IF ~Truthy(a.val)
               THEN /\ pc' = "Failed"
                    /\ outcome' = ErrorOutcome
                    /\ UNCHANGED <<i, step_results, context, exc, calls>>
               ELSE IF PrintPlan(a.val) # NoException
               THEN /\ Propagate(PrintPlan(a.val))
                    /\ UNCHANGED <<i, step_results, context>>
               ELSE /\ step_results' = <<>>
                    /\ context' = <<>>
                    /\ i' = 0
                    /\ Continue(a.val, 0, <<>>, <<>>)
    /\ UNCHANGED <<user_query, printed>>

\* execute_step's call for step i ends; solve records the result, extends
\* the context and goes on.
StepReturn(o) ==
    /\ pc = "Executing"
    /\ replies' = Append(replies, o)
    /\ LET result == call_llm(o) IN
       /\ step_results' = Append(step_results, result)
       /\ context' = context \o ContextRecord(i, result)
       /\ i' = i + 1
       /\ Continue(steps, i + 1, step_results', context')
    /\ UNCHANGED <<user_query, steps, printed>>

\* compile_results' call ends; solve returns the outcome.
CompileReturn(o) ==
    /\ pc = "Compiling"
    /\ replies' = Append(replies, o)
    /\ pc' = "Done"
    /\ outcome' = DoneOutcome(user_query, steps, step_results, call_llm(o))
    /\ UNCHANGED <<user_query, steps, i, step_results, context, exc, calls, printed>>

\* main reads result["final_response"] of the outcome solve returned.
MainPrint ==
    /\ pc \in {"Failed", "Done"}
    /\ printed = "no"
    /\ printed' = IF "final_response" \in DOMAIN outcome THEN "yes" ELSE "KeyError"
    /\ UNCHANGED <<pc, user_query, steps, i, step_results, context, outcome, exc,
                   calls, replies>>

Next ==
    \/ SolveStart
    \/ \E o \in PlanBehaviours : PlanReturn(o)
    \/ \E o \in ResultBehaviours : StepReturn(o)
    \/ \E o \in ResultBehaviours : CompileReturn(o)
    \/ MainPrint

Spec == Init /\ [][Next]_vars

\* Every call the capability is given eventually returns or raises, and the
\* single thread of control runs on.
FairSpec == Spec /\ WF_vars(Next)

----------------------------------------------------------------------------
\* Vocabulary of the properties, written out independently of the
\* operators above.

\* What a call hands back for the behaviour o: its text, or null.
ValueOf(o) == IF o.kind = "text" THEN [t |-> "str", v |-> o.content] ELSE [t |-> "none"]

Failure(o) == o.kind \in {"raises", "nocontent"}

Planned == Len(replies) >= 1

\* The decoded form of the plan p.
PlanValue(p) ==
    [t |-> "list",
     v |-> [k \in 1..Len(p) |->
              [t |-> "dict",
               v |-> [key \in {<<"description">>, <<"reasoning">>} |->
                        IF key = <<"description">>
                        THEN [t |-> "str", v |-> p[k].description]
                        ELSE [t |-> "str", v |-> p[k].reasoning]]]]]

\* steps is a list of records that all have description and reasoning.
WellFormedSteps ==
    /\ steps.t = "list"
    /\ \A k \in 1..Len(steps.v) :
          /\ steps.v[k].t = "dict"
          /\ {<<"description">>, <<"reasoning">>} \subseteq DOMAIN steps.v[k].v

\* Number of steps of the plan.
N == Len(steps.v)

\* The text of a result: null reads None.
ResultText(r) == IF r.t = "none" THEN <<"None">> ELSE r.v

\* "Step k result: <result_k>" for k = 1..n, one after the other.
RECURSIVE PlainRecords(_, _)
PlainRecords(results, n) ==
    IF n = 0 THEN <<>>
    ELSE PlainRecords(results, n - 1)
         \o <<"Step ", Digits[n + 1], " result: ">> \o ResultText(results[n])

\* The same, each record on a line of its own: a newline before each.
RECURSIVE NewlineRecords(_, _)
NewlineRecords(results, n) ==
    IF n = 0 THEN <<>>
    ELSE NewlineRecords(results, n - 1)
         \o <<"\n", "Step ", Digits[n + 1], " result: ">> \o ResultText(results[n])

\* The numbered block compile_results is to send: records 1..n, a blank
\* line between two.
RECURSIVE ResultBlock(_, _)
ResultBlock(results, n) ==
    IF n = 0 THEN <<>>
    ELSE IF n = 1 THEN <<"Step ", "1", " result: ">> \o ResultText(results[1])
    ELSE ResultBlock(results, n - 1)
         \o <<"\n", "\n", "Step ", Digits[n + 1], " result: ">> \o ResultText(results[n])

\* The message of the execute_step call for step number k (from 1), with
\* the context ctx.
ExpectedStepCall(k, ctx) ==
    [fn |-> "execute_step",
     user |-> <<"Context so far: ">> \o ctx
              \o <<"\n", "\n", "Execute this step: ">> \o steps.v[k].v[<<"description">>].v
              \o <<"\n", "\n", "Reasoning: ">> \o steps.v[k].v[<<"reasoning">>].v]

ExpectedCompileCall ==
    [fn |-> "compile_results",
     user |-> <<"Original query: ">> \o user_query
              \o <<"\n", "\n", "Results from steps:", "\n">>
              \o ResultBlock(step_results, Len(step_results))
              \o <<"\n", "\n", "Please provide a comprehensive, unified response to the original query.">>]

----------------------------------------------------------------------------
\* C1: when the planning call is answered with text that is not JSON,
\* analyze_task returns the empty list and solve ends Failed: the planning
\* call is the only call made, and the outcome has the error field and no
\* step_results.
C1_NonJsonPlanFails ==
    (Planned /\ replies[1].kind = "text" /\ replies[1].content \in NonJsonTexts)
    => /\ steps = PyList(<<>>)
       /\ pc = "Failed"
       /\ exc = NoException
       /\ Len(calls) = 1 /\ calls[1].fn = "analyze_task"
       /\ "error" \in DOMAIN outcome
       /\ "step_results" \notin DOMAIN outcome
       /\ step_results = <<>>

C1_Witness ==
    /\ pc = "Failed"
    /\ replies = <<Returns(<<"not", " ", "json">>)>>
    /\ DOMAIN outcome = {"error"}

\* The results recorded so far are those of the step calls that ended, in
\* order.
ResultsSoFar ==
    /\ \A k \in 1..Len(step_results) : step_results[k] = ValueOf(replies[k + 1])
    /\ pc = "Executing" => Len(step_results) = i /\ i < N /\ Len(replies) = i + 1
    /\ pc \in {"Compiling", "Done"} => Len(step_results) = N /\ i = N /\ N >= 1

\* C2 as stated: when solve completes normally, len(step_results) =
\* len(steps) = n and the context is "Step k result: <result_k>" for
\* k = 1..n, one record after the other; in the loop, step_results and the
\* context hold the results of the steps visited so far.
C2_ContextPlainRecords ==
    /\ pc \in {"Executing", "Compiling", "Done"} => ResultsSoFar
    /\ pc \in {"Executing", "Compiling", "Done"}
          => context = PlainRecords(step_results, Len(step_results))

\* C2, amended: the same with each record preceded by a newline,
\* "\nStep k result: <result_k>", a null result written None.
C2_ContextNewlineRecords ==
    /\ pc \in {"Executing", "Compiling", "Done"} => ResultsSoFar
    /\ pc \in {"Executing", "Compiling", "Done"}
          => context = NewlineRecords(step_results, Len(step_results))
    /\ pc = "Done" => outcome["step_results"] = PyList(step_results)

C2_Witness ==
    /\ pc = "Done"
    /\ N = 2
    /\ Len(step_results) = 2
    /\ step_results[1] = None
    /\ step_results[2] # None

\* C3: a failed completion call after planning does not abort solve. The
\* result of a step whose call raised or had no content is null and every
\* other result is the text returned; with a plan of well-formed steps
\* solve raises nothing and fails only at planning, so the steps after a
\* failed one run and compile_results is called with all n entries; a
\* failed compile call gives a Done outcome with a null final_response and
\* query, steps and step_results filled in.
C3_CallFailuresDegrade ==
    /\ \A k \in 1..Len(step_results) :
          step_results[k] = IF Failure(replies[k + 1]) THEN None
                            ELSE PyStr(replies[k + 1].content)
    /\ (Planned /\ WellFormedSteps) => exc = NoException /\ pc # "Raised"
    /\ pc = "Failed" => Len(replies) = 1
    /\ pc \in {"Compiling", "Done"}
          => /\ Len(step_results) = N
             /\ calls[Len(calls)] = ExpectedCompileCall
    /\ pc = "Done"
          => /\ Len(replies) = N + 2
             /\ outcome = [query |-> PyStr(user_query), steps |-> steps,
                           step_results |-> PyList(step_results),
                           final_response |-> ValueOf(replies[N + 2])]
             /\ Failure(replies[N + 2]) => outcome["final_response"] = None

C3_Witness ==
    /\ pc = "Done"
    /\ N = 2
    /\ replies[2].kind = "text"
    /\ replies[3] = Raises
    /\ replies[4] = NoContent
    /\ step_results = <<PyStr(replies[2].content), None>>
    /\ outcome["final_response"] = None

\* C4: the calls of a run are one planning call, then one execute_step
\* call per step in index order, then one compile_results call with all n
\* results and the query; the call for a step starts only when the results
\* of all steps before it are recorded, the compile call only when all n
\* are.
C4_CallOrder ==
    /\ pc # "Start" => Len(calls) >= 1
                       /\ calls[1] = [fn |-> "analyze_task",
                                      user |-> <<"Break down this task into steps: ">>
                                               \o user_query]
    /\ pc \in {"Planning", "Failed"} => Len(calls) = 1
    /\ (Planned /\ WellFormedSteps /\ N >= 1)
          => /\ pc \in {"Executing", "Compiling", "Done"}
             /\ Len(calls) <= N + 2
             /\ \A k \in 2..Len(calls) :
                   IF k <= N + 1
                   THEN /\ Len(step_results) >= k - 2
                        /\ calls[k] = ExpectedStepCall(k - 1,
                                         NewlineRecords(step_results, k - 2))
                   ELSE calls[k] = ExpectedCompileCall
             /\ pc = "Executing" => /\ Len(calls) = i + 2 /\ i < N
                                    /\ Len(replies) = i + 1
                                    /\ Len(step_results) = i
             /\ pc = "Compiling" => /\ Len(calls) = N + 2
                                    /\ Len(replies) = N + 1
                                    /\ Len(step_results) = N
             /\ pc = "Done" => /\ Len(calls) = N + 2
                               /\ Len(replies) = N + 2
                               /\ Len(step_results) = N

C4_Witness ==
    /\ pc = "Done"
    /\ N = 2
    /\ Len(calls) = 4
    /\ calls[2].fn = "execute_step" /\ calls[3].fn = "execute_step"
    /\ calls[4].fn = "compile_results"

\* C5: whatever the capability does at any call, the planning call
\* included, solve returns an outcome and propagates no exception.
C5_NeverPropagates ==
    exc = NoException

\* C6: the plan does not change once produced. A planning reply that is
\* the JSON array of the plan p decodes to p, records in order and fields
\* verbatim; no step after planning changes steps or a recorded entry of
\* step_results; the outcome's steps are the planner's array.
C6_PlanImmutable ==
    /\ [](\A p \in WellFormedPlans :
            (Planned /\ replies[1] = Returns(PlanText(p)))
            => /\ steps = PlanValue(p)
               /\ pc = "Done" => outcome["steps"] = PlanValue(p))
    /\ [][/\ pc \notin {"Start", "Planning"} => steps' = steps
          /\ Len(step_results') >= Len(step_results)
          /\ SubSeq(step_results', 1, Len(step_results)) = step_results]_vars

C6_Witness ==
    /\ pc = "Done"
    /\ N = 2
    /\ steps.v[1] # steps.v[2]
    /\ outcome["steps"] = steps
    /\ \E p \in WellFormedPlans : replies[1] = Returns(PlanText(p))

\* C7: a planning reply that is not a well-formed list of {description,
\* reasoning} records (not JSON, or JSON of another shape) makes
\* analyze_task return the empty list, so that solve ends Failed.
C7_MalformedPlanFails ==
    (Planned /\ replies[1].kind = "text"
             /\ replies[1].content \in NonJsonTexts \cup OtherShapeTexts)
    => pc = "Failed"

\* C8: the context given to the call for step i is the records of steps
\* 0..i-1 in order: empty for the first step, one record longer for each
\* later step, a null result contributing its record like any other.
C8_StepContext ==
    \A k \in 2..Len(calls) :
        calls[k].fn = "execute_step"
        => /\ Len(step_results) >= k - 2
           /\ calls[k].user =
                 <<"Context so far: ">>
                 \o NewlineRecords(step_results, k - 2)
                 \o <<"\n", "\n", "Execute this step: ">>
                 \o steps.v[k - 1].v[<<"description">>].v
                 \o <<"\n", "\n", "Reasoning: ">>
                 \o steps.v[k - 1].v[<<"reasoning">>].v
           /\ k = Len(calls) /\ pc = "Executing"
                 => context = NewlineRecords(step_results, k - 2)

C8_Witness ==
    /\ Len(calls) >= 3
    /\ calls[3].fn = "execute_step"
    /\ step_results[1] = None
    /\ calls[2].user[2] = "\n"
    /\ SubSeq(calls[3].user, 2, 6) = <<"\n", "Step ", "1", " result: ", "None">>

\* C9: every run of solve ends in Failed or Done and stays there: when no
\* step is left to take, solve is in Failed or Done.
C9_StopsInFailedOrDone ==
    (~ENABLED Next) => pc \in {"Failed", "Done"}

\* C10: every outcome solve returns has a final_response entry, so main's
\* read of result["final_response"] is defined.
C10_FinalResponseDefined ==
    /\ pc \in {"Failed", "Done"} => "final_response" \in DOMAIN outcome
    /\ printed # "KeyError"
====
